---- MODULE Spec2Model ----
(***************************************************************************)
(* Authorization-aware action dispatch of kedro-vizro-labeling:            *)
(* dashboards/protected_action.py (ProtectedAction) on top of              *)
(* dash_auth.group_protection.protected, and dashboards/protected.py       *)
(* (the set_props ProtectedAction, ProtectedPage, ProtectedDashboard).     *)
(*                                                                         *)
(* Python values are records [kind, elems, keys]:                          *)
(*   kind "none"   : None                                                  *)
(*   kind "scalar" : a value that is not a Collection (a figure)           *)
(*   kind "str"    : a string, elems = its tokens (words and separators)   *)
(*   kind "list"   : a list,  elems = its items                            *)
(*   kind "tuple"  : a tuple, elems = its items                            *)
(*   kind "dict"   : a mapping, keys = its key set                         *)
(*   kind "single" : one dash Output object (not a list, not a dict)       *)
(*   kind "error"  : a raised exception, elems = <<its class>>             *)
(***************************************************************************)
EXTENDS Integers, Sequences, FiniteSets, TLC

\* ---- bounds ----
MaxCalls == 2       \* calls of an action function that hands back one list object
MaxOutputs == 2     \* declared (non-denial) outputs of the action: 0..MaxOutputs
MaxGroups == 2      \* length of a list of groups (required or held): 0..MaxGroups
MaxSetups == 2      \* reads of _transformed_outputs that append denial slots

\* ---- universes of the inputs ----
Groups == {"Admin", "Viewer"}
GroupsKeys == {"roles", "groups"}
SepChars == {",", ";"}
NoSplit == "None"
CheckTypes == {"one_of", "all_of", "none_of"}

PyNone == [kind |-> "none", elems |-> <<>>, keys |-> {}]
PyScalar(v) == [kind |-> "scalar", elems |-> <<v>>, keys |-> {}]
PyStr(toks) == [kind |-> "str", elems |-> toks, keys |-> {}]
PyList(s) == [kind |-> "list", elems |-> s, keys |-> {}]
PyTuple(s) == [kind |-> "tuple", elems |-> s, keys |-> {}]
PyDict(ks) == [kind |-> "dict", elems |-> <<>>, keys |-> ks]
PySingle(o) == [kind |-> "single", elems |-> <<o>>, keys |-> {}]
PyError(cls) == [kind |-> "error", elems |-> <<cls>>, keys |-> {}]

SeqsUpTo(S, n) == UNION {[1..k -> S] : k \in 0..n}

\* isinstance(v, Collection): has __len__, __iter__ and __contains__
IsCollection(v) == v.kind \in {"str", "list", "tuple", "dict"}

\* isinstance(v, Mapping)
IsMapping(v) == v.kind = "dict"

\* len(v) of a Collection
PyLen(v) == IF v.kind = "dict" THEN Cardinality(v.keys) ELSE Len(v.elems)

\* bool(v) of the value handed to _action_callback_function as `outputs`
Truthy(v) ==
    CASE v.kind = "none" -> FALSE
      [] v.kind \in {"list", "tuple", "str"} -> Len(v.elems) > 0
      [] v.kind = "dict" -> v.keys # {}
      [] OTHER -> TRUE

VARIABLES
    outputs,            \* self.outputs: list of "<id>.<prop>" strings or a dict of them
    n_declared,         \* number of outputs the author declared (ghost, fixed)
    unauthenticated_modal_id,     \* TRUE when the id is not None
    missing_permission_modal_id,  \* TRUE when the id is not None
    groups,             \* self.groups: PyNone or a PyList of group names
    groups_key,         \* self.groups_key
    groups_str_split,   \* self.groups_str_split: NoSplit or a separator
    check_type,         \* self.check_type
    n_outputs,          \* self._n_outputs, -1 before setup
    callback_outputs,   \* build's callback_outputs: [hasExternal, external]
    built,              \* "no", "yes", or "error" (build raised)
    session,            \* the flask session of the current request
    inv,                \* what the last trigger did and returned, with the session it saw
    func_obj,           \* the list object an action function keeps and hands back on each call
    prev_branch,        \* the branch of the trigger before the last one ("none" if none)
    threads,            \* the triggers in flight in concurrent requests, per caller
    modals,             \* ids of the modals ProtectedDashboard.build put in the layout
    props,              \* ids whose is_open the last trigger set to True with set_props
    page_request        \* the last call of ProtectedDashboard._make_page_layout

vars == <<outputs, n_declared, unauthenticated_modal_id, missing_permission_modal_id,
          groups, groups_key, groups_str_split, check_type, n_outputs,
          callback_outputs, built, session, inv, func_obj, prev_branch, threads,
          modals, props, page_request>>

\* the state of dashboards/protected.py (ProtectedDashboard and its set_props action)
dashboard == <<modals, props, page_request>>

config == <<n_declared, unauthenticated_modal_id, missing_permission_modal_id,
            groups, groups_key, groups_str_split, check_type>>


\* ---- values the inputs are drawn from ----
Absent == [kind |-> "absent", elems |-> <<>>, keys |-> {}]

\* a group name as a one-word string
Word(g) == <<g>>

\* lists of group names (items are strings, i.e. token sequences)
GroupLists == {PyList(s) : s \in SeqsUpTo({Word(g) : g \in Groups}, MaxGroups)}

\* "Admin", "Admin,Viewer", "Admin;Viewer", ...: group names joined by one separator char
RECURSIVE Join(_, _)
Join(ws, c) == IF Len(ws) = 0 THEN <<>>
               ELSE IF Len(ws) = 1 THEN <<ws[1]>>
               ELSE <<ws[1], c>> \o Join(Tail(ws), c)

GroupStrings == {PyStr(Join(ws, c)) : ws \in (SeqsUpTo(Groups, MaxGroups) \ {<<>>}), c \in SepChars}

\* what session["user"] may hold under its groups key
MembershipValues == {Absent} \cup GroupLists \cup GroupStrings

NoUser == [hasUser |-> FALSE, key |-> "roles", val |-> Absent]
\* the identity provider stores the membership under "roles" (BasicAuth/OIDC user record)
Sessions == {NoUser} \cup [hasUser : {TRUE}, key : {"roles"}, val : MembershipValues]

\* ---- dash_auth.group_protection ----
\* The guard is the library function protected(), called at protected_action.py
\* lines 185-192.  Its behaviour as modelled here:
\*   list_groups:  None when "user" is not in the session; otherwise
\*                 session["user"].get(groups_key, []), a string being split with
\*                 re.split(groups_str_split, .) or wrapped in a one-element list
\*   check_groups: None when list_groups is None; True when groups is None;
\*                 one_of  bool(set(user_groups).intersection(groups)),
\*                 all_of  all(group in user_groups for group in groups),
\*                 none_of not any(group in user_groups for group in groups)
\*   protected:    missing_permissions_output defaults to unauthenticated_output;
\*                 returns unauthenticated_output without a user, func(...) when
\*                 authorized, missing_permissions_output otherwise

\* re.split(sep, s) on a tokenised string: the pieces between occurrences of sep
RECURSIVE ReSplit(_, _, _)
ReSplit(toks, sep, cur) ==
    IF Len(toks) = 0 THEN <<cur>>
    ELSE IF Head(toks) = sep THEN <<cur>> \o ReSplit(Tail(toks), sep, <<>>)
    ELSE ReSplit(Tail(toks), sep, Append(cur, Head(toks)))

\* list_groups(groups_key=, groups_str_split=): PyNone without a user, else a list of strings
list_groups(sess, key, split) ==
    IF ~sess.hasUser THEN PyNone
    ELSE LET user_groups == IF sess.key = key /\ sess.val.kind # "absent"
                            THEN sess.val ELSE PyList(<<>>)
         IN IF user_groups.kind = "str"
            THEN IF split # NoSplit
                 THEN PyList(ReSplit(user_groups.elems, split, <<>>))
                 ELSE PyList(<<user_groups.elems>>)
            ELSE user_groups

Items(l) == {l.elems[i] : i \in 1..Len(l.elems)}

\* check_groups with "one_of" requiring every group (the all_of test)
check_groups_one_of_as_all(sess, grp, key, split, ct) ==
    LET user_groups == list_groups(sess, key, split)
    IN IF user_groups.kind = "none" THEN "None"
       ELSE IF grp.kind = "none" THEN "True"
       ELSE IF ct \in {"one_of", "all_of"}
            THEN IF \A i \in 1..Len(grp.elems) : grp.elems[i] \in Items(user_groups)
                 THEN "True" ELSE "False"
       ELSE IF ~(\E i \in 1..Len(grp.elems) : grp.elems[i] \in Items(user_groups))
            THEN "True" ELSE "False"

\* check_groups with "all_of" accepting any one group (any() for all())
check_groups_all_of_as_any(sess, grp, key, split, ct) ==
    LET user_groups == list_groups(sess, key, split)
    IN IF user_groups.kind = "none" THEN "None"
       ELSE IF grp.kind = "none" THEN "True"
       ELSE IF ct = "one_of"
            THEN IF (Items(user_groups) \cap Items(grp)) # {} THEN "True" ELSE "False"
       ELSE IF ct = "all_of"
            THEN IF \E i \in 1..Len(grp.elems) : grp.elems[i] \in Items(user_groups)
                 THEN "True" ELSE "False"
       ELSE IF ~(\E i \in 1..Len(grp.elems) : grp.elems[i] \in Items(user_groups))
            THEN "True" ELSE "False"

\* check_groups with "none_of" testing all() instead of any()
check_groups_none_of_as_not_all(sess, grp, key, split, ct) ==
    LET user_groups == list_groups(sess, key, split)
    IN IF user_groups.kind = "none" THEN "None"
       ELSE IF grp.kind = "none" THEN "True"
       ELSE IF ct = "one_of"
            THEN IF (Items(user_groups) \cap Items(grp)) # {} THEN "True" ELSE "False"
       ELSE IF ct = "all_of"
            THEN IF \A i \in 1..Len(grp.elems) : grp.elems[i] \in Items(user_groups)
                 THEN "True" ELSE "False"
       ELSE IF ~(\A i \in 1..Len(grp.elems) : grp.elems[i] \in Items(user_groups))
            THEN "True" ELSE "False"

\* check_groups(groups, groups_key=, groups_str_split=, check_type=): "None", "True" or "False"
check_groups(sess, grp, key, split, ct) ==
    LET user_groups == list_groups(sess, key, split)
    IN IF user_groups.kind = "none" THEN "None"
       ELSE IF grp.kind = "none" THEN "True"
       ELSE IF ct = "one_of"
            THEN IF (Items(user_groups) \cap Items(grp)) # {} THEN "True" ELSE "False"
       ELSE IF ct = "all_of"
            THEN IF \A i \in 1..Len(grp.elems) : grp.elems[i] \in Items(user_groups)
                 THEN "True" ELSE "False"
       ELSE IF ~(\E i \in 1..Len(grp.elems) : grp.elems[i] \in Items(user_groups))
            THEN "True" ELSE "False"

\* protected_branch taking the missing-permissions branch when there is no user
protected_branch_no_user_forbidden(sess, grp, key, split, ct) ==
    IF ~sess.hasUser THEN "FORBIDDEN"
    ELSE LET authorized == check_groups(sess, grp, key, split, ct)
         IN IF authorized = "None" THEN "UNAUTHENTICATED"
            ELSE IF authorized = "True" THEN "ALLOWED"
            ELSE "FORBIDDEN"

\* the branch protected(...)(func)(...) takes for the session
protected_branch(sess, grp, key, split, ct) ==
    IF ~sess.hasUser THEN "UNAUTHENTICATED"
    ELSE LET authorized == check_groups(sess, grp, key, split, ct)
         IN IF authorized = "None" THEN "UNAUTHENTICATED"
            ELSE IF authorized = "True" THEN "ALLOWED"
            ELSE "FORBIDDEN"

\* protected calling func before it looks at the authorization
protected_calls_first(unauth_output, missing_output, sess, grp, key, split, ct, func_value) ==
    LET missing == IF missing_output.kind = "none" THEN unauth_output ELSE missing_output
        branch == protected_branch(sess, grp, key, split, ct)
    IN CASE branch = "UNAUTHENTICATED" ->
              [value |-> unauth_output, called |-> TRUE, branch |-> branch]
         [] branch = "ALLOWED" ->
              [value |-> func_value, called |-> TRUE, branch |-> branch]
         [] OTHER ->
              [value |-> missing, called |-> TRUE, branch |-> branch]

\* protected(unauthenticated_output, missing_permissions_output=, ...)(func)(...):
\* func_value is what func(...) evaluates to when it is called; the result tells
\* which branch ran and whether func was called
protected(unauth_output, missing_output, sess, grp, key, split, ct, func_value) ==
    LET missing == IF missing_output.kind = "none" THEN unauth_output ELSE missing_output
        branch == protected_branch(sess, grp, key, split, ct)
    IN CASE branch = "UNAUTHENTICATED" ->
              [value |-> unauth_output, called |-> FALSE, branch |-> branch]
         [] branch = "ALLOWED" ->
              [value |-> func_value, called |-> TRUE, branch |-> branch]
         [] OTHER ->
              [value |-> missing, called |-> FALSE, branch |-> branch]

\* ---- ProtectedAction (protected_action.py) ----

UnauthSlot == "unauthenticated_modal.is_open"
MissingSlot == "missing_permission_modal.is_open"
OutputName(i) == "output" \o ToString(i) \o ".prop"
KeyName(i) == "key" \o ToString(i)

\* the outputs an author can declare: a list of n references or a dict of n named references
DeclaredList(n) == PyList([i \in 1..n |-> OutputName(i)])
DeclaredDict(n) == PyDict({KeyName(i) : i \in 1..n})

\* list.append(x); a dict has no append
PyAppend(v, x) == IF v.kind = "list" THEN PyList(Append(v.elems, x)) ELSE PyError("AttributeError")

\* the appends of _transformed_outputs, lines 59-64: self.outputs afterwards
\* (outputs is an alias of self.outputs), or the error raised
AppendDenialSlots(outs, unauth, missing) ==
    LET o1 == IF unauth THEN PyAppend(outs, UnauthSlot) ELSE outs
    IN IF o1.kind = "error" THEN o1
       ELSE IF missing THEN PyAppend(o1, MissingSlot) ELSE o1

\* lines 66-77: the Output objects for the (extended) outputs
TransformOutputs(outs) ==
    IF outs.kind = "list"
    THEN IF Len(outs.elems) = 1 THEN PySingle(outs.elems[1]) ELSE outs
    ELSE outs

\* return_value.extend(flags) after wrapping a non-Collection in a list, lines 95-97 and 99-101
ExtendFlags(return_value, flags) ==
    LET rv == IF ~IsCollection(return_value)
              THEN PyList(<<IF return_value.kind = "none" THEN "None" ELSE return_value.elems[1]>>)
              ELSE return_value
    IN IF rv.kind = "list" THEN PyList(rv.elems \o flags) ELSE PyError("AttributeError")

\* ValidateReturn turning a returned tuple into a list (list(return_value))
ValidateReturn_coerce_list(return_value, outs) ==
    LET rv == IF return_value.kind = "tuple" THEN PyList(return_value.elems) ELSE return_value
    IN IF ~Truthy(outs)
       THEN IF rv.kind # "none" THEN PyError("ValueError") ELSE rv
       ELSE IF outs.kind = "dict"
       THEN IF ~IsMapping(rv) THEN PyError("ValueError")
            ELSE IF outs.keys # rv.keys THEN PyError("ValueError")
            ELSE rv
       ELSE IF outs.kind = "list"
       THEN IF ~IsCollection(rv) THEN PyError("ValueError")
            ELSE IF PyLen(rv) # PyLen(outs) THEN PyError("ValueError")
            ELSE rv
       ELSE rv

\* the checks of lines 105-132 on the (extended) return value
ValidateReturn(return_value, outs) ==
    IF ~Truthy(outs)
    THEN IF return_value.kind # "none" THEN PyError("ValueError") ELSE return_value
    ELSE IF outs.kind = "dict"
    THEN IF ~IsMapping(return_value) THEN PyError("ValueError")
         ELSE IF outs.keys # return_value.keys THEN PyError("ValueError")
         ELSE return_value
    ELSE IF outs.kind = "list"
    THEN IF ~IsCollection(return_value) THEN PyError("ValueError")
         ELSE IF PyLen(return_value) # PyLen(outs) THEN PyError("ValueError")
         ELSE return_value
    ELSE return_value

\* lines 94-101: return_value after the denial flags are appended (for a list this is
\* the function's own list object, extended in place), or the error raised
extend_return(func_return, unauth, missing) ==
    IF unauth /\ missing THEN ExtendFlags(func_return, <<"False", "False">>)
    ELSE IF unauth \/ missing THEN ExtendFlags(func_return, <<"False">>)
    ELSE func_return

\* _action_callback_function(inputs, outputs) when self.function returns func_return
action_callback_function(func_return, outs, unauth, missing) ==
    LET extended == extend_return(func_return, unauth, missing)
    IN IF extended.kind = "error" THEN extended ELSE ValidateReturn(extended, outs)

\* (no_update, ) * n
Markers(n) == [i \in 1..n |-> "no_update"]

\* lines 174-183: the two denial outputs handed to protected()
unauthenticated_output(n, unauth, missing) ==
    IF unauth /\ missing THEN PyTuple(Markers(n) \o <<"True", "False">>)
    ELSE IF unauth THEN PyTuple(Markers(n) \o <<"True">>)
    ELSE PyNone

\* missing_permissions_output with the flags of the unauthenticated output
missing_permissions_output_flags_swapped(n, unauth, missing) ==
    IF unauth /\ missing THEN PyTuple(Markers(n) \o <<"True", "False">>)
    ELSE IF unauth THEN PyNone
    ELSE IF missing THEN PyTuple(Markers(n) \o <<"True">>)
    ELSE PyNone

missing_permissions_output(n, unauth, missing) ==
    IF unauth /\ missing THEN PyTuple(Markers(n) \o <<"False", "True">>)
    ELSE IF unauth THEN PyNone
    ELSE IF missing THEN PyTuple(Markers(n) \o <<"True">>)
    ELSE PyNone


\* ---- what the wrapped action function may return ----
Values(k) == [i \in 1..k |-> "v" \o ToString(i)]

FuncReturns ==
    {PyNone, PyScalar("v1"), PyStr(<<"text">>)}
    \cup {PyList(Values(k)) : k \in 0..(MaxOutputs + 1)}
    \cup {PyTuple(Values(k)) : k \in 0..(MaxOutputs + 1)}
    \cup {PyDict({KeyName(i) : i \in 1..k}) : k \in 0..(MaxOutputs + 1)}

NoInv == [active |-> FALSE, branch |-> "none", executed |-> FALSE, raised |-> FALSE,
          func_return |-> Absent, value |-> Absent, sess |-> NoUser, shared |-> FALSE]

\* the callers of concurrent requests
Callers == {"c1", "c2"}

\* a caller without a trigger in flight
IdleThread == [pc |-> "idle", sess |-> NoUser, shared |-> FALSE, first_return |-> Absent,
               return_value |-> Absent, result |-> Absent]

\* callback_wrapper keeping the outcome of the trigger before (a memoised verdict)
callback_wrapper_cached(sess, func_return) ==
    IF inv.active THEN [inv EXCEPT !.sess = sess, !.shared = FALSE]
    ELSE
    LET unauth == unauthenticated_modal_id
        missing == missing_permission_modal_id
        r == protected(unauthenticated_output(n_outputs, unauth, missing),
                       missing_permissions_output(n_outputs, unauth, missing),
                       sess, groups, groups_key, groups_str_split, check_type,
                       action_callback_function(func_return, callback_outputs.external,
                                                unauth, missing))
    IN [active |-> TRUE,
        branch |-> r.branch,
        executed |-> r.called,
        raised |-> r.value.kind = "error",
        func_return |-> IF r.called THEN func_return ELSE Absent,
        value |-> IF r.value.kind = "error" THEN r.value
                  ELSE IF callback_outputs.hasExternal THEN r.value
                  ELSE Absent,
        sess |-> sess,
        shared |-> FALSE]

\* build.callback_wrapper, lines 173-196, for the session of the request, when the
\* action function would return func_return: the response, as a record of what happened
callback_wrapper(sess, func_return) ==
    LET unauth == unauthenticated_modal_id
        missing == missing_permission_modal_id
        r == protected(unauthenticated_output(n_outputs, unauth, missing),
                       missing_permissions_output(n_outputs, unauth, missing),
                       sess, groups, groups_key, groups_str_split, check_type,
                       action_callback_function(func_return, callback_outputs.external,
                                                unauth, missing))
    IN [active |-> TRUE,
        branch |-> r.branch,
        executed |-> r.called,
        raised |-> r.value.kind = "error",
        func_return |-> IF r.called THEN func_return ELSE Absent,
        value |-> IF r.value.kind = "error" THEN r.value
                  ELSE IF callback_outputs.hasExternal THEN r.value
                  ELSE Absent,
        sess |-> sess,
        shared |-> FALSE]

\* no page requested yet
NoPageRequest == [active |-> FALSE, protected |-> FALSE, branch |-> "none",
                  built_page |-> FALSE, layout |-> Absent]

\* protected.py before ProtectedDashboard.build and before any request
DashboardIdle ==
    /\ modals = {}
    /\ props = {}
    /\ page_request = NoPageRequest

\* ---- the state machine ----

Init ==
    /\ n_declared \in 0..MaxOutputs
    /\ outputs \in {DeclaredList(n_declared), DeclaredDict(n_declared)}
    /\ unauthenticated_modal_id \in BOOLEAN
    /\ missing_permission_modal_id \in BOOLEAN
    /\ groups \in {PyNone} \cup GroupLists
    /\ groups_key \in GroupsKeys
    /\ groups_str_split \in {NoSplit, ","}
    /\ check_type \in CheckTypes
    /\ n_outputs = -1
    /\ callback_outputs = [hasExternal |-> FALSE, external |-> PyNone]
    /\ built = "no"
    /\ session = NoUser
    /\ inv = NoInv
    /\ func_obj = PyList(Values(n_declared))
    /\ prev_branch = "none"
    /\ threads = [c \in Callers |-> IdleThread]
    /\ DashboardIdle

\* ProtectedAction.build(), lines 135-198, reading _transformed_outputs (lines 58-77) once
Build ==
    /\ built = "no"
    /\ n_outputs' = PyLen(outputs)
    /\ LET extended == AppendDenialSlots(outputs, unauthenticated_modal_id,
                                         missing_permission_modal_id)
       IN IF extended.kind = "error"
          THEN /\ built' = "error"
               /\ UNCHANGED <<outputs, callback_outputs>>
          ELSE LET external == TransformOutputs(extended)
               IN /\ built' = "yes"
                  /\ outputs' = extended
                  /\ callback_outputs' = [hasExternal |-> Truthy(external),
                                          external |-> IF Truthy(external) THEN external
                                                       ELSE PyNone]
    /\ UNCHANGED <<config, session, inv, func_obj, prev_branch, threads, dashboard>>

\* the session layer: a user logs in (session["user"] is set)
Login ==
    /\ ~session.hasUser
    /\ \E s \in Sessions \ {NoUser} : session' = s
    /\ inv' = NoInv
    /\ UNCHANGED <<config, outputs, n_outputs, callback_outputs, built,
                   func_obj, prev_branch, threads, dashboard>>

\* the session layer: the user logs out (session is cleared)
Logout ==
    /\ session.hasUser
    /\ session' = NoUser
    /\ inv' = NoInv
    /\ UNCHANGED <<config, outputs, n_outputs, callback_outputs, built,
                   func_obj, prev_branch, threads, dashboard>>

\* a trigger of the action: dash runs callback_wrapper
Invoke ==
    /\ built = "yes"
    /\ \E fr \in FuncReturns : inv' = callback_wrapper(session, fr)
    /\ UNCHANGED <<config, outputs, n_outputs, callback_outputs, built, session,
                   func_obj, prev_branch, threads, dashboard>>

Next == Build \/ Login \/ Logout \/ Invoke

Spec == Init /\ [][Next]_vars


\* ---- properties ----

Denied == {"UNAUTHENTICATED", "FORBIDDEN"}

\* number of configured modal ids
NumSlots == (IF unauthenticated_modal_id THEN 1 ELSE 0)
            + (IF missing_permission_modal_id THEN 1 ELSE 0)

\* number of Output objects bound by @callback for the action
BoundSlots ==
    IF ~callback_outputs.hasExternal THEN 0
    ELSE IF callback_outputs.external.kind = "single" THEN 1
    ELSE PyLen(callback_outputs.external)

\* number of elements of a returned value (a single value counts as one element)
Arity(v) ==
    CASE v.kind = "absent" -> 0
      [] v.kind \in {"list", "tuple"} -> Len(v.elems)
      [] v.kind = "dict" -> Cardinality(v.keys)
      [] OTHER -> 1

\* a function result of the shape the declared outputs ask for
CorrectlyShaped(fr) ==
    IF outputs.kind = "dict" THEN fr.kind = "dict" /\ fr.keys = {KeyName(i) : i \in 1..n_declared}
    ELSE IF n_declared = 0 THEN fr.kind = "none"
    ELSE IF n_declared = 1 THEN fr.kind = "scalar"
    ELSE fr.kind \in {"list", "tuple"} /\ Len(fr.elems) = n_declared

\* the caller's session holds group g under groups_key: g is an item of the stored
\* list, or a whole piece of the stored string between separators (the whole string
\* when no separator is configured)
HoldsGroup(g) ==
    /\ session.hasUser
    /\ session.key = groups_key
    /\ LET v == session.val
       IN \/ v.kind = "list" /\ \E i \in 1..Len(v.elems) : v.elems[i] = <<g>>
          \/ v.kind = "str" /\ \E i \in 1..Len(v.elems) :
                /\ v.elems[i] = g
                /\ (i = 1 \/ v.elems[i - 1] = groups_str_split)
                /\ (i = Len(v.elems) \/ v.elems[i + 1] = groups_str_split)

\* the group names the action requires
Required == IF groups.kind = "none" THEN {} ELSE {g \in Groups : <<g>> \in Items(groups)}

\* C1: the slots bound at setup are the declared outputs plus the configured modal
\* ids, and the value returned on each verdict (ALLOWED with a correctly shaped
\* function result, UNAUTHENTICATED, FORBIDDEN) has exactly that many elements.
C1_ArityInvariant ==
    built = "yes" =>
        /\ BoundSlots = n_declared + NumSlots
        /\ (inv.active /\ (inv.branch \in Denied \/ CorrectlyShaped(inv.func_return)))
              => (~inv.raised /\ Arity(inv.value) = n_declared + NumSlots)

\* C2: on UNAUTHENTICATED and on FORBIDDEN the wrapped action function is not
\* executed, whichever denial slots are configured.
C2_NoExecutionOnDenial ==
    (inv.active /\ inv.branch \in Denied) => ~inv.executed

C2_Witness ==
    /\ inv.active /\ inv.branch = "FORBIDDEN" /\ ~inv.executed
    /\ unauthenticated_modal_id /\ ~missing_permission_modal_id

\* C3: without an authenticated user the verdict is UNAUTHENTICATED, whatever the
\* required groups, the groups key, the separator and the check mode.
C3_UnauthenticatedVerdict ==
    (inv.active /\ ~session.hasUser) => inv.branch = "UNAUTHENTICATED"

C3_Witness ==
    /\ inv.active /\ ~session.hasUser /\ inv.branch = "UNAUTHENTICATED"
    /\ groups = PyList(<<Word("Admin")>>) /\ check_type = "none_of"
    /\ groups_key = "groups" /\ groups_str_split = ","

\* C4: for an authenticated user and empty required groups (None or an empty list)
\* the verdict is ALLOWED for every check mode and every membership.
C4_EmptyGroupsAllowed ==
    (inv.active /\ session.hasUser /\ Required = {}) => inv.branch = "ALLOWED"

\* C5: ONE_OF with non-empty required groups: ALLOWED iff the caller holds at least
\* one required group, FORBIDDEN otherwise; required {Admin} with roles [Viewer] is
\* FORBIDDEN, with roles [Admin, Viewer] ALLOWED.
C5_OneOf ==
    (inv.active /\ session.hasUser /\ Required # {} /\ check_type = "one_of") =>
        /\ inv.branch = (IF \E g \in Required : HoldsGroup(g) THEN "ALLOWED" ELSE "FORBIDDEN")
        /\ (groups = PyList(<<Word("Admin")>>) /\ groups_key = "roles") =>
              /\ session.val = PyList(<<Word("Viewer")>>) => inv.branch = "FORBIDDEN"
              /\ session.val = PyList(<<Word("Admin"), Word("Viewer")>>) => inv.branch = "ALLOWED"

C5_Witness ==
    /\ inv.active /\ check_type = "one_of" /\ groups_key = "roles"
    /\ groups = PyList(<<Word("Admin"), Word("Viewer")>>)
    /\ session.hasUser /\ session.val = PyStr(<<"Viewer", ",", "Admin">>)
    /\ groups_str_split = "," /\ inv.branch = "ALLOWED" /\ inv.executed

\* C6: ALL_OF with non-empty required groups: ALLOWED iff the caller holds every
\* required group, FORBIDDEN otherwise.
C6_AllOf ==
    (inv.active /\ session.hasUser /\ Required # {} /\ check_type = "all_of") =>
        inv.branch = (IF \A g \in Required : HoldsGroup(g) THEN "ALLOWED" ELSE "FORBIDDEN")

C6_Witness ==
    /\ inv.active /\ check_type = "all_of" /\ groups_key = "roles"
    /\ groups = PyList(<<Word("Admin"), Word("Viewer")>>)
    /\ session.hasUser /\ session.val = PyList(<<Word("Admin")>>)
    /\ inv.branch = "FORBIDDEN"

\* C7: NONE_OF with non-empty required groups: ALLOWED iff the caller holds no
\* required group, FORBIDDEN otherwise.
C7_NoneOf ==
    (inv.active /\ session.hasUser /\ Required # {} /\ check_type = "none_of") =>
        inv.branch = (IF \A g \in Required : ~HoldsGroup(g) THEN "ALLOWED" ELSE "FORBIDDEN")

C7_Witness ==
    /\ inv.active /\ check_type = "none_of" /\ groups_key = "roles"
    /\ groups = PyList(<<Word("Admin"), Word("Viewer")>>)
    /\ session.hasUser /\ session.val = PyList(<<Word("Viewer")>>)
    /\ inv.branch = "FORBIDDEN"

\* C8: with both denial slots configured a denied dispatch returns one unchanged
\* marker per declared output followed by (True, False) on UNAUTHENTICATED and by
\* (False, True) on FORBIDDEN; one declared output and FORBIDDEN gives
\* (no_update, False, True).
C8_BothSlotsDenied ==
    (inv.active /\ unauthenticated_modal_id /\ missing_permission_modal_id
       /\ inv.branch \in Denied) =>
        /\ ~inv.raised
        /\ Len(inv.value.elems) = n_declared + 2
        /\ \A i \in 1..n_declared : inv.value.elems[i] = "no_update"
        /\ SubSeq(inv.value.elems, n_declared + 1, n_declared + 2)
              = (IF inv.branch = "UNAUTHENTICATED" THEN <<"True", "False">>
                 ELSE <<"False", "True">>)
        /\ (n_declared = 1 /\ inv.branch = "FORBIDDEN")
              => inv.value.elems = <<"no_update", "False", "True">>

C8_Witness ==
    /\ inv.active /\ unauthenticated_modal_id /\ missing_permission_modal_id
    /\ n_declared = 1 /\ inv.branch = "FORBIDDEN"
    /\ inv.value = PyTuple(<<"no_update", "False", "True">>)

\* C9: with exactly one denial slot configured a denied dispatch returns one
\* unchanged marker per declared output followed by one flag: the unauthenticated
\* slot gets True on UNAUTHENTICATED and False on FORBIDDEN, the missing-permission
\* slot False on UNAUTHENTICATED and True on FORBIDDEN.
C9_OneSlotDenied ==
    (inv.active /\ (unauthenticated_modal_id # missing_permission_modal_id)
       /\ inv.branch \in Denied) =>
        /\ ~inv.raised
        /\ Len(inv.value.elems) = n_declared + 1
        /\ \A i \in 1..n_declared : inv.value.elems[i] = "no_update"
        /\ inv.value.elems[n_declared + 1]
              = (IF unauthenticated_modal_id = (inv.branch = "UNAUTHENTICATED")
                 THEN "True" ELSE "False")

\* C10: with no denial slot configured a denied dispatch raises no error and
\* returns exactly one unchanged marker per declared output, not None.
C10_SilentDenial ==
    (inv.active /\ ~unauthenticated_modal_id /\ ~missing_permission_modal_id
       /\ inv.branch \in Denied) =>
        /\ ~inv.raised
        /\ inv.value.kind # "none"
        /\ Len(inv.value.elems) = n_declared
        /\ \A i \in 1..n_declared : inv.value.elems[i] = "no_update"


\* the values a returned value stands for, in order: the items of a list or tuple,
\* the value itself otherwise
Own(v) ==
    IF v.kind \in {"list", "tuple"} THEN v.elems
    ELSE IF v.kind = "none" THEN <<"None">>
    ELSE v.elems

FalseFlags == [i \in 1..NumSlots |-> "False"]

\* C11: on ALLOWED, for a scalar, list or tuple returned for the declared list
\* outputs, dispatch returns the function's own values followed by one False per
\* configured denial slot; one output, both slots and figure_value give
\* (figure_value, False, False).
C11_AllowedAppendsFlags ==
    (inv.active /\ inv.branch = "ALLOWED" /\ outputs.kind = "list" /\ n_declared >= 1
       /\ \/ inv.func_return.kind = "scalar" /\ n_declared = 1
          \/ inv.func_return.kind \in {"list", "tuple"}
                /\ Len(inv.func_return.elems) = n_declared) =>
        /\ ~inv.raised
        /\ Own(inv.value) = Own(inv.func_return) \o FalseFlags

\* C12: on ALLOWED with list-declared outputs (one or more), dispatch raises iff
\* the returned value is not list-like or its length differs from the declared
\* count, for every denial-slot configuration; a list or tuple of the right length
\* is never rejected.
C12_ListValidation ==
    (inv.active /\ inv.branch = "ALLOWED" /\ outputs.kind = "list" /\ n_declared >= 1
       /\ inv.func_return.kind \in {"none", "scalar", "list", "tuple"}) =>
        (inv.raised <=> ~(/\ inv.func_return.kind \in {"list", "tuple"}
                          /\ Len(inv.func_return.elems) = n_declared))

\* C13: with outputs declared as a mapping (with or without denial slots) the action
\* dispatches, and on ALLOWED it raises iff the function returns a non-mapping or a
\* mapping whose key set differs from the declared keys.
C13_MappingValidation ==
    (outputs.kind = "dict" /\ n_declared >= 1) =>
        /\ built # "error"
        /\ (inv.active /\ inv.branch = "ALLOWED") =>
              (inv.raised <=> ~(/\ inv.func_return.kind = "dict"
                                /\ inv.func_return.keys = {KeyName(i) : i \in 1..n_declared}))

\* C14: on ALLOWED for an action without declared outputs, dispatch raises iff
\* the function returns a value, whether or not denial slots are configured.
C14_NoOutputsValidation ==
    (inv.active /\ inv.branch = "ALLOWED" /\ n_declared = 0) =>
        (inv.raised <=> inv.func_return.kind # "none")

\* C15: on ALLOWED, a return value that passes validation is returned without
\* reshaping: unchanged when no denial slot is configured, and otherwise as the
\* list of the function's own values, in order, followed by the denial flags.
C15_NoReshaping ==
    (inv.active /\ inv.branch = "ALLOWED" /\ ~inv.raised) =>
        IF NumSlots = 0
        THEN IF callback_outputs.hasExternal THEN inv.value = inv.func_return
             ELSE inv.value = Absent /\ inv.func_return = PyNone
        ELSE /\ inv.value.kind = "list"
             /\ inv.value.elems = Own(inv.func_return) \o FalseFlags

C15_Witness ==
    /\ inv.active /\ inv.branch = "ALLOWED" /\ ~inv.raised /\ NumSlots = 0
    /\ n_declared = 2
    /\ inv.func_return = PyTuple(Values(2)) /\ inv.value = PyTuple(Values(2))

\* C16: the allowed, unauthenticated and forbidden outcomes have the shape of the
\* binding fixed at setup: a single value for a single bound output, a sequence
\* for a bound list, a mapping with the bound keys for a bound mapping.
C16_ShapeMatchesBinding ==
    (inv.active /\ callback_outputs.hasExternal
       /\ (inv.branch \in Denied \/ CorrectlyShaped(inv.func_return))) =>
        /\ ~inv.raised
        /\ CASE callback_outputs.external.kind = "single" ->
                   inv.value.kind \in {"scalar", "none", "str"}
             [] callback_outputs.external.kind = "list" ->
                   inv.value.kind \in {"list", "tuple"}
             [] OTHER ->
                   inv.value.kind = "dict" /\ inv.value.keys = callback_outputs.external.keys


\* ---- repeated setup (C17) ----

\* a small set of permission requirements for the specifications that are not
\* about the guard
InitFewRequirements ==
    /\ groups \in {PyNone, PyList(<<Word("Admin")>>)}
    /\ groups_key = "roles"
    /\ groups_str_split = NoSplit
    /\ check_type = "one_of"

InitSetup ==
    /\ n_declared \in 0..MaxOutputs
    /\ outputs \in {DeclaredList(n_declared), DeclaredDict(n_declared)}
    /\ unauthenticated_modal_id \in BOOLEAN
    /\ missing_permission_modal_id \in BOOLEAN
    /\ InitFewRequirements
    /\ n_outputs = -1
    /\ callback_outputs = [hasExternal |-> FALSE, external |-> PyNone]
    /\ built = "no"
    /\ session = NoUser
    /\ inv = NoInv
    /\ func_obj = PyList(Values(n_declared))
    /\ prev_branch = "none"
    /\ threads = [c \in Callers |-> IdleThread]
    /\ DashboardIdle

\* one more read of the property _transformed_outputs (lines 42-77) outside build:
\* it stores _n_outputs and appends the denial slots to self.outputs; the Output
\* objects it returns are dropped
ReadTransformedOutputs ==
    /\ built # "error"
    /\ NumSlots = 0 \/ PyLen(outputs) < n_declared + NumSlots * MaxSetups
    /\ n_outputs' = PyLen(outputs)
    /\ LET extended == AppendDenialSlots(outputs, unauthenticated_modal_id,
                                         missing_permission_modal_id)
       IN outputs' = IF extended.kind = "error" THEN outputs ELSE extended
    /\ UNCHANGED <<config, callback_outputs, built, session, inv,
                   func_obj, prev_branch, threads, dashboard>>

NextSetup == ReadTransformedOutputs \/ Build \/ Login \/ Logout \/ Invoke

SpecSetup == InitSetup /\ [][NextSetup]_vars

\* how often a reference occurs in the action's output list
Occurrences(ref) == Cardinality({i \in 1..Len(outputs.elems) : outputs.elems[i] = ref})

\* C17: after any number of setup steps the output list holds each configured
\* denial slot exactly once and n_outputs is the number of declared outputs.
C17_SetupIdempotent ==
    (n_outputs # -1 /\ outputs.kind = "list") =>
        /\ Occurrences(UnauthSlot) = (IF unauthenticated_modal_id THEN 1 ELSE 0)
        /\ Occurrences(MissingSlot) = (IF missing_permission_modal_id THEN 1 ELSE 0)
        /\ n_outputs = n_declared


\* ---- sequences of triggers (C18, C19) ----

\* the sessions of the callers of a sequence of triggers
SeqSessions ==
    {NoUser} \cup [hasUser : {TRUE}, key : {"roles"},
                   val : {PyList(<<Word("Admin")>>), PyList(<<Word("Viewer")>>),
                          PyStr(<<"Viewer", ",", "Admin">>)}]

\* what a function that builds a new value on each call may return
FreshReturns == {PyScalar("v1"), PyList(Values(n_declared)), PyTuple(Values(n_declared))}

InitSeq ==
    /\ n_declared \in 0..MaxOutputs
    /\ outputs = DeclaredList(n_declared)
    /\ unauthenticated_modal_id \in BOOLEAN
    /\ missing_permission_modal_id \in BOOLEAN
    /\ groups \in {PyNone, PyList(<<Word("Admin")>>)}
    /\ groups_key = "roles"
    /\ groups_str_split = ","
    /\ check_type \in CheckTypes
    /\ n_outputs = -1
    /\ callback_outputs = [hasExternal |-> FALSE, external |-> PyNone]
    /\ built = "no"
    /\ session = NoUser
    /\ inv = NoInv
    /\ func_obj = PyList(Values(n_declared))
    /\ prev_branch = "none"
    /\ threads = [c \in Callers |-> IdleThread]
    /\ DashboardIdle

\* the session layer between two triggers: login, logout, change of the groups
SessionLogin ==
    /\ ~session.hasUser
    /\ \E s \in SeqSessions \ {NoUser} : session' = s
    /\ UNCHANGED <<config, outputs, n_outputs, callback_outputs, built, inv,
                   func_obj, prev_branch, threads, dashboard>>

SessionLogout ==
    /\ session.hasUser
    /\ session' = NoUser
    /\ UNCHANGED <<config, outputs, n_outputs, callback_outputs, built, inv,
                   func_obj, prev_branch, threads, dashboard>>

SessionChange ==
    /\ session.hasUser
    /\ \E s \in SeqSessions \ {NoUser, session} : session' = s
    /\ UNCHANGED <<config, outputs, n_outputs, callback_outputs, built, inv,
                   func_obj, prev_branch, threads, dashboard>>

\* a trigger whose action function builds a new value
InvokeFresh ==
    /\ built = "yes"
    /\ \E fr \in FreshReturns : inv' = callback_wrapper(session, fr)
    /\ prev_branch' = inv.branch
    /\ UNCHANGED <<config, outputs, n_outputs, callback_outputs, built, session,
                   func_obj, threads, dashboard>>

\* a trigger whose action function hands back the list object it keeps: lines 94-101
\* extend that object in place
InvokeShared ==
    /\ built = "yes"
    /\ n_declared >= 1
    /\ NumSlots = 0 \/ PyLen(func_obj) < n_declared + NumSlots * MaxCalls
    /\ LET r == callback_wrapper(session, func_obj)
       IN /\ inv' = [r EXCEPT !.shared = TRUE]
          /\ func_obj' = IF r.executed
                         THEN extend_return(func_obj, unauthenticated_modal_id,
                                            missing_permission_modal_id)
                         ELSE func_obj
    /\ prev_branch' = inv.branch
    /\ UNCHANGED <<config, outputs, n_outputs, callback_outputs, built, session, threads, dashboard>>

NextSeq == Build \/ SessionLogin \/ SessionLogout \/ SessionChange
           \/ InvokeFresh \/ InvokeShared

SpecSeq == InitSeq /\ [][NextSeq]_vars

\* session sess holds group g under groups_key
HeldBy(sess, g) ==
    /\ sess.hasUser
    /\ sess.key = groups_key
    /\ LET v == sess.val
       IN \/ v.kind = "list" /\ \E i \in 1..Len(v.elems) : v.elems[i] = <<g>>
          \/ v.kind = "str" /\ \E i \in 1..Len(v.elems) :
                /\ v.elems[i] = g
                /\ (i = 1 \/ v.elems[i - 1] = groups_str_split)
                /\ (i = Len(v.elems) \/ v.elems[i + 1] = groups_str_split)

\* the verdict the session and the action's requirement determine
ExpectedVerdict(sess) ==
    IF ~sess.hasUser THEN "UNAUTHENTICATED"
    ELSE IF groups.kind = "none" THEN "ALLOWED"
    ELSE IF CASE check_type = "one_of" -> \E g \in Required : HeldBy(sess, g)
              [] check_type = "all_of" -> \A g \in Required : HeldBy(sess, g)
              [] OTHER -> \A g \in Required : ~HeldBy(sess, g)
         THEN "ALLOWED" ELSE "FORBIDDEN"

\* C18: in any sequence of triggers interleaved with logins, logouts and group
\* changes, the outcome of each trigger is the one the session current at that
\* trigger determines: the verdict is never carried over from an earlier trigger.
C18_FreshVerdict ==
    inv.active =>
        /\ inv.branch = ExpectedVerdict(inv.sess)
        /\ inv.executed = (ExpectedVerdict(inv.sess) = "ALLOWED")

C18_Witness ==
    /\ inv.active /\ prev_branch = "ALLOWED"
    /\ ~inv.sess.hasUser /\ inv.branch = "UNAUTHENTICATED" /\ ~inv.executed

\* the value the function of the last trigger returns on its first call
FirstReturn ==
    IF inv.shared THEN PyList(Values(n_declared))
    ELSE IF inv.executed THEN inv.func_return
    ELSE PyNone

\* C19: the value a trigger returns is the one the same trigger (same session, same
\* function) returns as the first trigger after setup, also when the action function
\* hands back the same list object on each call.
C19_IndependentInvocations ==
    inv.active => inv.value = callback_wrapper(inv.sess, FirstReturn).value



\* ---- concurrent triggers (C20) ----
\* Each caller has its own request context, hence its own flask session; the action
\* object, the bound outputs and an object the action function keeps are shared.
\* callback_wrapper runs in three steps per caller: the guard and the call of the
\* function (lines 174-192, 89-92), the appending of the flags (lines 94-101), and
\* the validation and return (lines 105-132, 194-196).

InitConc ==
    /\ n_declared \in 0..MaxOutputs
    /\ outputs = DeclaredList(n_declared)
    /\ unauthenticated_modal_id \in BOOLEAN
    /\ missing_permission_modal_id \in BOOLEAN
    /\ InitFewRequirements
    /\ n_outputs = -1
    /\ callback_outputs = [hasExternal |-> FALSE, external |-> PyNone]
    /\ built = "no"
    /\ session = NoUser
    /\ inv = NoInv
    /\ func_obj = PyList(Values(n_declared))
    /\ prev_branch = "none"
    /\ threads = [c \in Callers |-> IdleThread]
    /\ DashboardIdle

\* lines 194-196: what callback_wrapper hands to dash for return_value v
Response(v) ==
    IF v.kind = "error" THEN v
    ELSE IF callback_outputs.hasExternal THEN v
    ELSE Absent

\* the value of the local return_value of caller c: the shared object when the
\* function handed that back
ReturnValueOf(c) == IF threads[c].shared THEN func_obj ELSE threads[c].return_value

\* caller c triggers the action: the guard runs and, when it allows, the function
\* is called
Enter(c) ==
    /\ built = "yes"
    /\ threads[c].pc = "idle"
    /\ \E s \in SeqSessions, fr \in FreshReturns, sh \in BOOLEAN :
          /\ sh => n_declared >= 1
          /\ LET unauth == unauthenticated_modal_id
                 missing == missing_permission_modal_id
                 r == protected(unauthenticated_output(n_outputs, unauth, missing),
                                missing_permissions_output(n_outputs, unauth, missing),
                                s, groups, groups_key, groups_str_split, check_type,
                                PyNone)
             IN threads' = [threads EXCEPT ![c] =
                   IF r.called
                   THEN [pc |-> "called", sess |-> s, shared |-> sh,
                         first_return |-> IF sh THEN PyList(Values(n_declared)) ELSE fr,
                         return_value |-> IF sh THEN Absent ELSE fr,
                         result |-> Absent]
                   ELSE [pc |-> "done", sess |-> s, shared |-> FALSE,
                         first_return |-> PyNone, return_value |-> Absent,
                         result |-> Response(r.value)]]
    /\ UNCHANGED <<config, outputs, n_outputs, callback_outputs, built, session, inv,
                   func_obj, prev_branch, dashboard>>

\* caller c appends the denial flags to return_value, lines 94-101
Extend(c) ==
    /\ threads[c].pc = "called"
    /\ LET extended == extend_return(ReturnValueOf(c), unauthenticated_modal_id,
                                     missing_permission_modal_id)
       IN IF extended.kind = "error"
          THEN /\ threads' = [threads EXCEPT ![c].pc = "done", ![c].result = extended]
               /\ UNCHANGED func_obj
          ELSE IF threads[c].shared
          THEN /\ func_obj' = extended
               /\ threads' = [threads EXCEPT ![c].pc = "extended"]
          ELSE /\ threads' = [threads EXCEPT ![c].pc = "extended",
                                             ![c].return_value = extended]
               /\ UNCHANGED func_obj
    /\ UNCHANGED <<config, outputs, n_outputs, callback_outputs, built, session, inv,
                   prev_branch, dashboard>>

\* caller c validates return_value and returns, lines 105-132 and 194-196
Validate(c) ==
    /\ threads[c].pc = "extended"
    /\ threads' = [threads EXCEPT
                      ![c].pc = "done",
                      ![c].result = Response(ValidateReturn(ReturnValueOf(c),
                                                            callback_outputs.external))]
    /\ UNCHANGED <<config, outputs, n_outputs, callback_outputs, built, session, inv,
                   func_obj, prev_branch, dashboard>>

NextConc == Build \/ (\E c \in Callers : Enter(c) \/ Extend(c) \/ Validate(c))

SpecConc == InitConc /\ [][NextConc]_vars

\* C20: under every interleaving, each of the concurrent triggers returns what it
\* returns when it runs alone with its own session and inputs.
C20_NoInterference ==
    \A c \in Callers :
        threads[c].pc = "done" =>
            threads[c].result = callback_wrapper(threads[c].sess, threads[c].first_return).value

\* ---- dashboards/protected.py: the set_props action and the protected pages ----
\* (C21, C22)

UnauthenticatedModal == "unauthenticated-modal"
MissingPermissionModal == "missing-permission-modal"

\* what a call gives: the value returned and the ids whose is_open the call set to
\* True with set_props
Outcome(v, opened) == [kind |-> "outcome", value |-> v, opened |-> opened]

\* protected.py lines 102-104, called by protected() when there is no user
set_props_unauthenticated_output(n) ==
    Outcome(PyTuple(Markers(n)), {UnauthenticatedModal})

\* protected.py lines 106-108, called by protected() when a permission is missing
set_props_missing_permissions_output(n) ==
    Outcome(PyTuple(Markers(n)), {MissingPermissionModal})

\* super()._action_callback_function of line 117, vm.Action's: the function is
\* called and its return value checked against the bound outputs, no flag appended
super_action_callback_function(func_return, outs) ==
    LET external == TransformOutputs(outs)
    IN Outcome(action_callback_function(func_return,
                                        IF Truthy(external) THEN external ELSE PyNone,
                                        FALSE, FALSE),
               {})

\* _action_callback_function opening the other modal on each denial
set_props_action_callback_function_swapped(sess, func_return) ==
    LET n == PyLen(outputs)
    IN protected(set_props_missing_permissions_output(n),
                 set_props_unauthenticated_output(n),
                 sess, groups, groups_key, groups_str_split, check_type,
                 super_action_callback_function(func_return, outputs))

\* ProtectedAction._action_callback_function of protected.py, lines 99-117, for the
\* session of the request, when the action function would return func_return
set_props_action_callback_function(sess, func_return) ==
    LET n == PyLen(outputs)
    IN protected(set_props_unauthenticated_output(n),
                 set_props_missing_permissions_output(n),
                 sess, groups, groups_key, groups_str_split, check_type,
                 super_action_callback_function(func_return, outputs))

\* the sessions of the dashboard's visitors; hasEmail tells whether session["user"]
\* has the key "email"
DashSessions ==
    {[hasUser |-> FALSE, key |-> "roles", val |-> Absent, hasEmail |-> FALSE]}
    \cup [hasUser : {TRUE}, key : {"roles"},
          val : {Absent, PyList(<<Word("Admin")>>), PyList(<<Word("Viewer")>>),
                 PyStr(<<"Viewer", ",", "Admin">>)},
          hasEmail : BOOLEAN]

\* what the action functions of the dashboard may return
DashReturns ==
    {PyNone, PyScalar("v1"), PyList(Values(n_declared)), PyList(Values(n_declared + 1)),
     PyTuple(Values(n_declared)), PyDict({KeyName(i) : i \in 1..n_declared})}

InitDashboard ==
    /\ n_declared \in 0..MaxOutputs
    /\ outputs \in {DeclaredList(n_declared), DeclaredDict(n_declared)}
    /\ unauthenticated_modal_id = FALSE
    /\ missing_permission_modal_id = FALSE
    /\ groups \in {PyNone} \cup GroupLists
    /\ groups_key = "roles"
    /\ groups_str_split = ","
    /\ check_type \in CheckTypes
    /\ n_outputs = -1
    /\ callback_outputs = [hasExternal |-> FALSE, external |-> PyNone]
    /\ built = "no"
    /\ session \in {s \in DashSessions : ~s.hasUser}
    /\ inv = NoInv
    /\ func_obj = PyList(Values(n_declared))
    /\ prev_branch = "none"
    /\ threads = [c \in Callers |-> IdleThread]
    /\ DashboardIdle

\* ProtectedDashboard.build, lines 175-205: the two modals join the layout
DashboardBuild ==
    /\ modals = {}
    /\ modals' = {UnauthenticatedModal, MissingPermissionModal}
    /\ UNCHANGED <<config, outputs, n_outputs, callback_outputs, built, session, inv,
                   func_obj, prev_branch, threads, props, page_request>>

\* a visitor signs in; the browser loads the dashboard anew
DashLogin ==
    /\ ~session.hasUser
    /\ \E s \in DashSessions : s.hasUser /\ session' = s
    /\ inv' = NoInv
    /\ props' = {}
    /\ page_request' = NoPageRequest
    /\ UNCHANGED <<config, outputs, n_outputs, callback_outputs, built,
                   func_obj, prev_branch, threads, modals>>

\* the visitor follows Logout, lines 167-170; the browser loads the dashboard anew
DashLogout ==
    /\ session.hasUser
    /\ \E s \in DashSessions : ~s.hasUser /\ session' = s
    /\ inv' = NoInv
    /\ props' = {}
    /\ page_request' = NoPageRequest
    /\ UNCHANGED <<config, outputs, n_outputs, callback_outputs, built,
                   func_obj, prev_branch, threads, modals>>

\* a trigger of the set_props action of the served dashboard
TriggerAction ==
    /\ modals # {}
    /\ \E fr \in DashReturns :
          LET r == set_props_action_callback_function(session, fr)
          IN /\ inv' = [active |-> TRUE,
                        branch |-> r.branch,
                        executed |-> r.called,
                        raised |-> r.value.value.kind = "error",
                        func_return |-> IF r.called THEN fr ELSE Absent,
                        value |-> r.value.value,
                        sess |-> session,
                        shared |-> FALSE]
             /\ props' = r.value.opened
    /\ UNCHANGED <<config, outputs, n_outputs, callback_outputs, built, session,
                   func_obj, prev_branch, threads, modals, page_request>>

\* Dashboard._make_page_layout and Dashboard._make_page_404_layout build these
PageLayout == PyScalar("page_layout")
Page404Layout == PyScalar("page_404_layout")

\* ProtectedDashboard._make_protected_page_layout, lines 220-244: the page layout with
\* the greeting; line 227 reads session["user"]["email"] when there is a user
make_protected_page_layout(sess) ==
    IF sess.hasUser /\ ~sess.hasEmail THEN PyError("KeyError") ELSE PageLayout

\* ProtectedDashboard._make_page_layout, lines 207-218, for a page that is a
\* ProtectedPage (is_protected) or a plain vm.Page; a ProtectedPage carries the
\* requirement groups, groups_key, groups_str_split, check_type
make_page_layout(is_protected, sess) ==
    IF is_protected
    THEN protected(Page404Layout, Page404Layout,
                   sess, groups, groups_key, groups_str_split, check_type,
                   make_protected_page_layout(sess))
    ELSE [value |-> make_protected_page_layout(sess), called |-> TRUE, branch |-> "none"]

\* the visitor opens a page of the served dashboard
RequestPage ==
    /\ modals # {}
    /\ \E is_protected \in BOOLEAN :
          LET r == make_page_layout(is_protected, session)
          IN page_request' = [active |-> TRUE,
                              protected |-> is_protected,
                              branch |-> r.branch,
                              built_page |-> r.called,
                              layout |-> r.value]
    /\ UNCHANGED <<config, outputs, n_outputs, callback_outputs, built, session, inv,
                   func_obj, prev_branch, threads, modals, props>>

NextDashboard == DashboardBuild \/ DashLogin \/ DashLogout \/ TriggerAction \/ RequestPage

SpecDashboard == InitDashboard /\ [][NextDashboard]_vars

\* C21: a denied trigger of the set_props action returns exactly len(outputs)
\* unchanged markers, does not run the wrapped callback and opens exactly the modal of
\* its verdict (the unauthenticated modal without a user, the missing-permission modal
\* when a permission is missing); an allowed trigger opens no modal and returns what
\* the wrapped callback returns.
C21_SetPropsDenial ==
    inv.active =>
        LET verdict == ExpectedVerdict(inv.sess)
            markers == PyTuple(Markers(PyLen(outputs)))
        IN /\ inv.branch = verdict
           /\ props \subseteq modals
           /\ verdict = "UNAUTHENTICATED" =>
                 inv.value = markers /\ ~inv.executed /\ props = {UnauthenticatedModal}
           /\ verdict = "FORBIDDEN" =>
                 inv.value = markers /\ ~inv.executed /\ props = {MissingPermissionModal}
           /\ verdict = "ALLOWED" =>
                 /\ inv.executed
                 /\ props = {}
                 /\ inv.value = super_action_callback_function(inv.func_return, outputs).value

C21_Witness ==
    /\ inv.active
    /\ inv.branch = "FORBIDDEN"
    /\ PyLen(outputs) = MaxOutputs
    /\ inv.value = PyTuple(Markers(MaxOutputs))
    /\ props = {MissingPermissionModal}

\* C22: the layout of a ProtectedPage is built only when the verdict for the current
\* session is ALLOWED, and is then the page's layout; on UNAUTHENTICATED and on
\* FORBIDDEN the 404 layout is returned and the page layout is never built; a page
\* that is not a ProtectedPage is rendered whatever the session.
C22_PageGuard ==
    page_request.active =>
        LET verdict == ExpectedVerdict(session)
        IN IF page_request.protected
           THEN /\ page_request.built_page = (verdict = "ALLOWED")
                /\ verdict \in Denied => page_request.layout = Page404Layout
                /\ verdict = "ALLOWED" => page_request.layout = PageLayout
           ELSE /\ page_request.built_page
                /\ page_request.layout = PageLayout

====
